---- MODULE Spec2Model ----
(***************************************************************************)
(* A model of croc.go: the CrocClient request builder.  The state is the   *)
(* struct's fields; every exported method is one action.  The HTTP client  *)
(* (http.Client.Do) and the response body stream (io.ReadAll) are the      *)
(* environment: each call to them picks one of their possible outcomes.    *)
(* The client's cookie jar is left out: the responses of the model set no  *)
(* cookie, so the jar stays empty and adds nothing to a request.  A call   *)
(* of http.Client.Do counts as one call, whatever redirects it follows.    *)
(* The caller makes at most MaxSteps calls on the builder; last, firstErr, *)
(* failed, added and proxied record what the caller has seen and done,     *)
(* they are no fields.                                                     *)
(***************************************************************************)
EXTENDS Integers, Sequences, FiniteSets, TLC

VARIABLES
    url,            \* cc.url
    method,         \* cc.method
    headers,        \* cc.headers: canonical key -> sequence of values
    cookies,        \* cc.cookies
    basicAuth,      \* cc.basicAuth
    rawBody,        \* cc.rawBody
    proxy,          \* cc.proxy: <<>> (nil) or <<proxy url>>
    err,            \* cc.err: NoErr (nil) or an error message
    lastRequest,    \* cc.lastRequest: <<>> (nil) or <<request>>
    lastResponse,   \* cc.lastResponse: <<>> (nil) or <<response>>
    respStatusCode, \* cc.respStatusCode
    respHeaders,    \* cc.respHeaders
    rawRespBody,    \* cc.rawRespBody
    contentLength,  \* cc.contentLength
    transportProxy, \* cc.transport.Proxy
    calls,          \* how many times cc.client.Do has been called
    sent,           \* the call last made to cc.client.Do: <<>> or <<[req, proxy]>>
    last,           \* the call last made on the builder and what it returned
    firstErr,       \* the first error produced since the last method selection
    failed,         \* the error of the last failed End() since then
    added,          \* the cookies given to AddCookies since ClearCookies
    proxied,        \* the url of the last Proxy() that parsed, since ClearProxy
    steps           \* how many calls the caller has made on the builder

vars == <<url, method, headers, cookies, basicAuth, rawBody, proxy, err,
          lastRequest, lastResponse, respStatusCode, respHeaders, rawRespBody,
          contentLength, transportProxy, calls, sent, last, firstErr,
          failed, added, proxied, steps>>

\* the fields ClearRequestData resets
requestData == <<url, method, headers, basicAuth, rawBody>>
\* the four fields End fills from a response that was read to its end
snapshot == <<respStatusCode, respHeaders, rawRespBody, contentLength>>
\* every field of the struct
builder == <<url, method, headers, cookies, basicAuth, rawBody, proxy, err,
             lastRequest, lastResponse, respStatusCode, respHeaders,
             rawRespBody, contentLength, transportProxy>>

----------------------------------------------------------------------------
\* Bounds of the model.

\* the number of calls the caller makes on one builder
MaxSteps == 4

----------------------------------------------------------------------------
\* Values.

GET == "GET"
POST == "POST"
PUT == "PUT"
DELETE == "DELETE"
HEAD == "HEAD"
PATCH == "PATCH"
OPTIONS == "OPTIONS"

Methods == {GET, POST, PUT, DELETE, HEAD, PATCH, OPTIONS}

\* the nil error
NoErr == "nil"

\* url.Parse: the error it returns, NoErr when the text parses.  A "%" that
\* is not followed by two hex digits is an invalid escape; the error carries
\* the text, so two malformed texts give two different errors.
BadEscapes == {"%zz", "%yy"}
UrlParseErr(rawUrl) ==
    IF rawUrl \in BadEscapes
    THEN "parse \"" \o rawUrl \o "\": invalid URL escape \"" \o rawUrl \o "\""
    ELSE NoErr

\* the target urls the method-selection calls are given
Urls == {"", "http://a", "%zz"}
\* the texts Proxy() is given
ProxyUrls == {"http://p", "%zz", "%yy"}

\* textproto.CanonicalMIMEHeaderKey on the keys the model uses: the first
\* letter and every letter after a hyphen in upper case, the rest in lower
CanonicalKey(key) ==
    CASE key = "x-k" -> "X-K"
      [] key = "X-K" -> "X-K"
      [] key = "authorization" -> "Authorization"
      [] key = "Authorization" -> "Authorization"
      [] key = "cookie" -> "Cookie"
      [] key = "Cookie" -> "Cookie"

\* keys as the caller writes them, and the keys of an http.Header
RawKeys == {"x-k", "Authorization", "Cookie"}
HeaderKeys == {CanonicalKey(k) : k \in RawKeys}
\* the values the caller gives: a plain one, and one that reads as the
\* basic-auth encoding of the credentials ("u", "p")
HeaderValues == {"v1", "Basic u:p"}

\* http.Header{}: no key has a value
EmptyHeader == [k \in HeaderKeys |-> <<>>]

\* http.Header.Set
HeaderSet(h, key, value) == [h EXCEPT ![CanonicalKey(key)] = <<value>>]
\* http.Header.Add
HeaderAdd(h, key, value) ==
    [h EXCEPT ![CanonicalKey(key)] = Append(h[CanonicalKey(key)], value)]
\* http.Header.Get: the first value of the key, "" when it has none
HeaderGet(h, key) ==
    IF h[CanonicalKey(key)] = <<>> THEN "" ELSE Head(h[CanonicalKey(key)])

\* BasicAuth{}: the zero value
EmptyAuth == [Username |-> "", Password |-> ""]
Credentials == {EmptyAuth,
                [Username |-> "u", Password |-> ""],
                [Username |-> "u", Password |-> "p"]}

\* the value (*http.Request).SetBasicAuth gives the Authorization header;
\* the base64 encoding, a bijection, is left out
BasicAuthValue(username, password) == "Basic " \o username \o ":" \o password

Cookie1 == [Name |-> "a", Value |-> "1"]
Cookie2 == [Name |-> "b", Value |-> "2"]
CookieLists == {<<Cookie1>>, <<Cookie2>>}

Bodies == {<<>>, <<123, 125>>}

----------------------------------------------------------------------------
\* What the HTTP client can answer.

Header1 == [EmptyHeader EXCEPT !["X-K"] = <<"r1", "r2">>]
Response1 == [StatusCode |-> 200, Header |-> Header1, Body |-> <<111, 107>>,
              ContentLength |-> 2]
\* a response whose length the transport does not report
Response2 == [StatusCode |-> 404, Header |-> EmptyHeader, Body |-> <<>>,
              ContentLength |-> -1]
Responses == {Response1, Response2}

TransportErr == "dial tcp: connection refused"
ReadErr == "unexpected EOF"

\* one answer of cc.client.Do followed by io.ReadAll: the send fails, or it
\* gives a response whose body then fails to read or reads to its end
Outcomes ==
    {[sendErr |-> TransportErr, resp |-> Response1, readErr |-> NoErr]}
    \cup {[sendErr |-> NoErr, resp |-> r, readErr |-> e] :
            r \in Responses, e \in {NoErr, ReadErr}}

----------------------------------------------------------------------------
\* Request assembly.

\* http.NewRequest followed by nothing else: the request as first built
NewRequest(m, target, body) ==
    [Method |-> m, URL |-> target, Header |-> EmptyHeader, Body |-> body]

\* CopyHeaders with req.Header.Set in the place of req.Header.Add: of the
\* values of a key, the last one stays
CopyHeadersBySet(dst, src) ==
    [k \in DOMAIN dst |->
        IF src[k] = <<>> THEN dst[k] ELSE <<src[k][Len(src[k])]>>]

\* the two loops of makeRequest: for each key of cc.headers, in any order,
\* req.Header.Add(key, value) for each of its values, in their order: every
\* key of the request gets the values it has in src after those it had
CopyHeaders(dst, src) ==
    [k \in DOMAIN dst |-> dst[k] \o src[k]]

\* (*http.Request).SetBasicAuth
RequestSetBasicAuth(h, username, password) ==
    HeaderSet(h, "Authorization", BasicAuthValue(username, password))

\* (*http.Request).AddCookie: the cookie joins the first Cookie value
RequestAddCookie(h, c) ==
    LET s == c.Name \o "=" \o c.Value
        old == HeaderGet(h, "Cookie")
    IN  IF old # "" THEN HeaderSet(h, "Cookie", old \o "; " \o s)
        ELSE HeaderSet(h, "Cookie", s)

RECURSIVE AttachCookies(_, _)
AttachCookies(h, cks) ==
    IF cks = <<>> THEN h
    ELSE AttachCookies(RequestAddCookie(h, Head(cks)), Tail(cks))

\* Assemble with the password alone deciding whether credentials are stored
AssembleByPassword(m, target, hdrs, auth, body, cks) ==
    IF UrlParseErr(target) # NoErr
    THEN [req |-> <<>>, err |-> UrlParseErr(target)]
    ELSE LET req == NewRequest(m, target, body)
             h1 == CopyHeaders(req.Header, hdrs)
             h2 == IF auth.Password # ""
                   THEN RequestSetBasicAuth(h1, auth.Username, auth.Password)
                   ELSE h1
             h3 == AttachCookies(h2, cks)
         IN  [req |-> <<[req EXCEPT !.Header = h3]>>, err |-> NoErr]

\* makeRequest from http.NewRequest on: the headers, the basic auth and the
\* cookies are put on the request
Assemble(m, target, hdrs, auth, body, cks) ==
    IF UrlParseErr(target) # NoErr
    THEN [req |-> <<>>, err |-> UrlParseErr(target)]
    ELSE LET req == NewRequest(m, target, body)
             h1 == CopyHeaders(req.Header, hdrs)
             h2 == IF auth # EmptyAuth
                   THEN RequestSetBasicAuth(h1, auth.Username, auth.Password)
                   ELSE h1
             h3 == AttachCookies(h2, cks)
         IN  [req |-> <<[req EXCEPT !.Header = h3]>>, err |-> NoErr]

\* MakeRequestOf without the check of the url
MakeRequestAnyUrl(m, target, hdrs, auth, body, cks) ==
    IF m = "" THEN [req |-> <<>>, err |-> "no method specified"]
    ELSE Assemble(m, target, hdrs, auth, body, cks)

\* makeRequest on the fields given: [req |-> <<>> or <<request>>, err |-> error]
MakeRequestOf(m, target, hdrs, auth, body, cks) ==
    IF m = "" THEN [req |-> <<>>, err |-> "no method specified"]
    ELSE IF target = "" THEN [req |-> <<>>, err |-> "no url specified"]
    ELSE Assemble(m, target, hdrs, auth, body, cks)

\* cc.makeRequest()
makeRequest == MakeRequestOf(method, url, headers, basicAuth, rawBody, cookies)

----------------------------------------------------------------------------
\* The state after New().

\* a call that returns the builder itself
Returned(op, arg) ==
    [op |-> op, arg |-> arg, err |-> NoErr, resp |-> <<>>, body |-> <<>>,
     closed |-> FALSE]

Init ==
    /\ url = ""
    /\ method = ""
    /\ headers = EmptyHeader
    /\ cookies = <<>>
    /\ basicAuth = EmptyAuth
    /\ rawBody = <<>>
    /\ proxy = <<>>
    /\ err = NoErr
    /\ lastRequest = <<>>
    /\ lastResponse = <<>>
    /\ respStatusCode = 0
    /\ respHeaders = EmptyHeader
    /\ rawRespBody = <<>>
    /\ contentLength = 0
    /\ transportProxy = <<>>
    /\ calls = 0
    /\ sent = <<>>
    /\ last = Returned("New", <<>>)
    /\ firstErr = NoErr
    /\ failed = NoErr
    /\ added = <<>>
    /\ proxied = <<>>
    /\ steps = 0

\* the HTTP client as End and Do leave it when they do not call it
client == <<transportProxy, calls, sent>>
\* what End() records of an execution
results == <<lastRequest, lastResponse, respStatusCode, respHeaders,
             rawRespBody, contentLength>>
\* the errors seen since the last method selection, when a call adds none
errors == <<firstErr, failed>>
\* what the caller has configured, when a call adds nothing to it
logs == <<added, proxied>>

\* the errors seen, after a call that produced the error e
Produced(e) ==
    firstErr' = IF firstErr = NoErr THEN e ELSE firstErr

----------------------------------------------------------------------------
\* The calls.

ClearRequestData ==
    /\ url' = ""
    /\ method' = ""
    /\ headers' = EmptyHeader
    /\ basicAuth' = EmptyAuth
    /\ rawBody' = <<>>
    /\ last' = Returned("ClearRequestData", <<>>)
    /\ UNCHANGED <<cookies, proxy, err, results, client, errors, logs>>

ClearCookies ==
    /\ cookies' = <<>>
    /\ last' = Returned("ClearCookies", <<>>)
    /\ added' = <<>>
    /\ UNCHANGED <<requestData, proxy, err, results, client, errors, proxied>>

ClearProxy ==
    /\ proxy' = <<>>
    /\ last' = Returned("ClearProxy", <<>>)
    /\ proxied' = <<>>
    /\ UNCHANGED <<requestData, cookies, err, results, client, errors, added>>

\* SelectMethod with a reset that takes the cookies too
SelectMethodAll(m, targetUrl) ==
    /\ headers' = EmptyHeader
    /\ basicAuth' = EmptyAuth
    /\ rawBody' = <<>>
    /\ cookies' = <<>>
    /\ method' = m
    /\ url' = targetUrl
    /\ err' = NoErr
    /\ UNCHANGED <<proxy, results, client>>

\* the body the seven method-selection calls share: ClearRequestData(), then
\* the method, the url and a nil error
SelectMethod(m, targetUrl) ==
    /\ headers' = EmptyHeader
    /\ basicAuth' = EmptyAuth
    /\ rawBody' = <<>>
    /\ method' = m
    /\ url' = targetUrl
    /\ err' = NoErr
    /\ UNCHANGED <<cookies, proxy, results, client>>

\* a method selection, as the caller sees it
Selected(m, targetUrl) ==
    /\ last' = Returned(m, <<targetUrl>>)
    /\ firstErr' = NoErr
    /\ failed' = NoErr
    /\ UNCHANGED logs

Get(targetUrl) == SelectMethod(GET, targetUrl) /\ Selected(GET, targetUrl)
Post(targetUrl) == SelectMethod(POST, targetUrl) /\ Selected(POST, targetUrl)
Put(targetUrl) == SelectMethod(PUT, targetUrl) /\ Selected(PUT, targetUrl)
Delete(targetUrl) ==
    SelectMethod(DELETE, targetUrl) /\ Selected(DELETE, targetUrl)
Head_(targetUrl) == SelectMethod(HEAD, targetUrl) /\ Selected(HEAD, targetUrl)
Patch(targetUrl) == SelectMethod(PATCH, targetUrl) /\ Selected(PATCH, targetUrl)
Options(targetUrl) ==
    SelectMethod(OPTIONS, targetUrl) /\ Selected(OPTIONS, targetUrl)

\* AddCookies with an assignment in the place of append: the cookies given
\* replace those pending
AddCookiesReplacing(cks) ==
    /\ cookies' = cks
    /\ last' = Returned("AddCookies", <<cks>>)
    /\ added' = added \o cks
    /\ UNCHANGED <<requestData, proxy, err, results, client, errors, proxied>>

AddCookies(cks) ==
    /\ cookies' = cookies \o cks
    /\ last' = Returned("AddCookies", <<cks>>)
    /\ added' = added \o cks
    /\ UNCHANGED <<requestData, proxy, err, results, client, errors, proxied>>

\* SetHeader with headers.Add in the place of headers.Set
SetHeaderAdding(key, value) ==
    /\ headers' = HeaderAdd(headers, key, value)
    /\ last' = Returned("SetHeader", <<key, value>>)
    /\ UNCHANGED <<url, method, basicAuth, rawBody, cookies, proxy, err,
                   results, client, errors, logs>>

SetHeader(key, value) ==
    /\ headers' = HeaderSet(headers, key, value)
    /\ last' = Returned("SetHeader", <<key, value>>)
    /\ UNCHANGED <<url, method, basicAuth, rawBody, cookies, proxy, err,
                   results, client, errors, logs>>

AppendHeader(key, value) ==
    /\ headers' = HeaderAdd(headers, key, value)
    /\ last' = Returned("AppendHeader", <<key, value>>)
    /\ UNCHANGED <<url, method, basicAuth, rawBody, cookies, proxy, err,
                   results, client, errors, logs>>

SetBasicAuth(username, password) ==
    /\ basicAuth' = [Username |-> username, Password |-> password]
    /\ last' = Returned("SetBasicAuth", <<username, password>>)
    /\ UNCHANGED <<url, method, headers, rawBody, cookies, proxy, err,
                   results, client, errors, logs>>

\* Proxy that does not keep the error of url.Parse
ProxyDroppingError(proxyUrl) ==
    /\ IF UrlParseErr(proxyUrl) # NoErr
       THEN UNCHANGED <<proxy, proxied, err, firstErr>>
       ELSE /\ proxy' = <<proxyUrl>>
            /\ proxied' = <<proxyUrl>>
            /\ UNCHANGED <<err, firstErr>>
    /\ last' = Returned("Proxy", <<proxyUrl>>)
    /\ UNCHANGED <<requestData, cookies, results, client, failed, added>>

Proxy(proxyUrl) ==
    /\ IF UrlParseErr(proxyUrl) # NoErr
       THEN /\ err' = UrlParseErr(proxyUrl)
            /\ Produced(UrlParseErr(proxyUrl))
            /\ UNCHANGED <<proxy, proxied>>
       ELSE /\ proxy' = <<proxyUrl>>
            /\ proxied' = <<proxyUrl>>
            /\ UNCHANGED <<err, firstErr>>
    /\ last' = Returned("Proxy", <<proxyUrl>>)
    /\ UNCHANGED <<requestData, cookies, results, client, failed, added>>

\* Payload that does nothing while an error is pending
PayloadGuarded(data) ==
    /\ rawBody' = IF err # NoErr THEN rawBody ELSE data
    /\ last' = Returned("Payload", <<data>>)
    /\ UNCHANGED <<url, method, headers, basicAuth, cookies, proxy, err,
                   results, client, errors, logs>>

Payload(data) ==
    /\ rawBody' = data
    /\ last' = Returned("Payload", <<data>>)
    /\ UNCHANGED <<url, method, headers, basicAuth, cookies, proxy, err,
                   results, client, errors, logs>>

\* what End returns, with whether it closed a response body on the way
EndReturn(e, closed) ==
    [op |-> "End", arg |-> <<>>, err |-> e, resp |-> <<>>, body |-> <<>>,
     closed |-> closed]

\* End() with an error pending: the error is returned at once
EndPending ==
    /\ last' = EndReturn(err, FALSE)
    /\ failed' = err
    /\ UNCHANGED <<builder, client, firstErr, logs>>

\* EndNoRequest that stores the nil request makeRequest returned
EndNoRequestStoring ==
    /\ err' = makeRequest.err
    /\ lastRequest' = <<>>
    /\ last' = EndReturn(makeRequest.err, FALSE)
    /\ Produced(makeRequest.err)
    /\ failed' = makeRequest.err
    /\ UNCHANGED <<requestData, cookies, proxy, lastResponse, snapshot,
                   client, logs>>

\* End() when makeRequest fails
EndNoRequest ==
    /\ err' = makeRequest.err
    /\ last' = EndReturn(makeRequest.err, FALSE)
    /\ Produced(makeRequest.err)
    /\ failed' = makeRequest.err
    /\ UNCHANGED <<requestData, cookies, proxy, results, client, logs>>

\* EndSendFailed that stores the nil response the client returned
EndSendFailedStoring(o) ==
    /\ lastResponse' = <<>>
    /\ err' = o.sendErr
    /\ last' = EndReturn(o.sendErr, FALSE)
    /\ Produced(o.sendErr)
    /\ failed' = o.sendErr
    /\ UNCHANGED snapshot

\* End() when cc.client.Do returns an error
EndSendFailed(o) ==
    /\ err' = o.sendErr
    /\ last' = EndReturn(o.sendErr, FALSE)
    /\ Produced(o.sendErr)
    /\ failed' = o.sendErr
    /\ UNCHANGED <<lastResponse, snapshot>>

\* EndReadFailed with the status code taken before the body is read
EndReadFailedAfterStatus(o) ==
    /\ lastResponse' = <<o.resp>>
    /\ respStatusCode' = o.resp.StatusCode
    /\ err' = o.readErr
    /\ last' = EndReturn(o.readErr, TRUE)
    /\ Produced(o.readErr)
    /\ failed' = o.readErr
    /\ UNCHANGED <<respHeaders, rawRespBody, contentLength>>

\* EndReadFailed that returns the error without keeping it in cc.err
EndReadFailedUnkept(o) ==
    /\ lastResponse' = <<o.resp>>
    /\ last' = EndReturn(o.readErr, TRUE)
    /\ Produced(o.readErr)
    /\ failed' = o.readErr
    /\ UNCHANGED <<err, snapshot>>

\* EndReadFailed with resp.Body.Close() called after the read is checked,
\* not deferred: a failed read returns before it
EndReadFailedUnclosed(o) ==
    /\ lastResponse' = <<o.resp>>
    /\ err' = o.readErr
    /\ last' = EndReturn(o.readErr, FALSE)
    /\ Produced(o.readErr)
    /\ failed' = o.readErr
    /\ UNCHANGED snapshot

\* End() when io.ReadAll fails on the body of the response
EndReadFailed(o) ==
    /\ lastResponse' = <<o.resp>>
    /\ err' = o.readErr
    /\ last' = EndReturn(o.readErr, TRUE)
    /\ Produced(o.readErr)
    /\ failed' = o.readErr
    /\ UNCHANGED snapshot

\* End() when the body was read to its end
EndSucceeded(o) ==
    /\ lastResponse' = <<o.resp>>
    /\ rawRespBody' = o.resp.Body
    /\ respStatusCode' = o.resp.StatusCode
    /\ respHeaders' = o.resp.Header
    /\ contentLength' = o.resp.ContentLength
    /\ last' = EndReturn(NoErr, TRUE)
    /\ UNCHANGED <<err, errors>>

\* the transport left with the proxy it had
KeepTransportProxy == UNCHANGED transportProxy

\* cc.transport.Proxy = cc.proxy
SetTransportProxy == transportProxy' = proxy

\* cc.client.Do(req): one more call, through the proxy the transport now has
ClientDo(req) ==
    /\ calls' = calls + 1
    /\ sent' = <<[req |-> req, proxy |-> transportProxy']>>

\* EndSend that drops the pending cookies once they are sent
EndSendConsuming(o) ==
    /\ lastRequest' = makeRequest.req
    /\ SetTransportProxy
    /\ ClientDo(makeRequest.req[1])
    /\ cookies' = <<>>
    /\ UNCHANGED <<requestData, proxy, logs>>
    /\ IF o.sendErr # NoErr THEN EndSendFailed(o)
       ELSE IF o.readErr # NoErr THEN EndReadFailed(o)
       ELSE EndSucceeded(o)

\* End() from the request on: the request is stored and sent
EndSend(o) ==
    /\ lastRequest' = makeRequest.req
    /\ SetTransportProxy
    /\ ClientDo(makeRequest.req[1])
    /\ UNCHANGED <<requestData, cookies, proxy, logs>>
    /\ IF o.sendErr # NoErr THEN EndSendFailed(o)
       ELSE IF o.readErr # NoErr THEN EndReadFailed(o)
       ELSE EndSucceeded(o)

\* End without the check of cc.err at its start
EndUnguarded(o) ==
    IF makeRequest.err # NoErr THEN EndNoRequest
    ELSE EndSend(o)

\* End(), the HTTP client answering o if it is asked
End(o) ==
    IF err # NoErr THEN EndPending
    ELSE IF makeRequest.err # NoErr THEN EndNoRequest
    ELSE EndSend(o)

\* the requests the caller builds itself and hands to Do
DoRequests == {NewRequest(GET, "http://b", <<>>)}

\* DoReturn with no response returned when its body fails to read
DoReturnDroppingResponse(req, o) ==
    IF o.sendErr # NoErr \/ o.readErr # NoErr
    THEN [op |-> "Do", arg |-> <<req>>,
          err |-> IF o.sendErr # NoErr THEN o.sendErr ELSE o.readErr,
          resp |-> <<>>, body |-> <<>>, closed |-> o.sendErr = NoErr]
    ELSE [op |-> "Do", arg |-> <<req>>, err |-> NoErr, resp |-> <<o.resp>>,
          body |-> <<o.resp.Body>>, closed |-> TRUE]

\* what Do returns
DoReturn(req, o) ==
    IF o.sendErr # NoErr
    THEN [op |-> "Do", arg |-> <<req>>, err |-> o.sendErr, resp |-> <<>>,
          body |-> <<>>, closed |-> FALSE]
    ELSE IF o.readErr # NoErr
    THEN [op |-> "Do", arg |-> <<req>>, err |-> o.readErr,
          resp |-> <<o.resp>>, body |-> <<>>, closed |-> TRUE]
    ELSE [op |-> "Do", arg |-> <<req>>, err |-> NoErr, resp |-> <<o.resp>>,
          body |-> <<o.resp.Body>>, closed |-> TRUE]

\* Do that keeps the response it got in cc.lastResponse, as End does
DoRecording(req, o) ==
    /\ SetTransportProxy
    /\ ClientDo(req)
    /\ last' = DoReturn(req, o)
    /\ lastResponse' = IF o.sendErr = NoErr THEN <<o.resp>> ELSE lastResponse
    /\ UNCHANGED <<requestData, cookies, proxy, err, lastRequest, snapshot,
                   errors, logs>>

\* Do(req), the HTTP client answering o
Do(req, o) ==
    /\ SetTransportProxy
    /\ ClientDo(req)
    /\ last' = DoReturn(req, o)
    /\ UNCHANGED <<requestData, cookies, proxy, err, results, errors, logs>>

\* the accessors: reads of the fields
Error == err
Request == lastRequest
Response == lastResponse
RespStatus == respStatusCode
RespHeaders == respHeaders
RespLength == contentLength
RawRespBody == rawRespBody

----------------------------------------------------------------------------

\* one more call of the caller, while the bound allows it
Call == steps < MaxSteps /\ steps' = steps + 1

Next ==
    \/ Call /\ ClearRequestData
    \/ Call /\ ClearCookies
    \/ Call /\ ClearProxy
    \/ Call /\ \E u \in Urls : Get(u)
    \/ Call /\ \E u \in Urls : Post(u)
    \/ Call /\ \E u \in Urls : Put(u)
    \/ Call /\ \E u \in Urls : Delete(u)
    \/ Call /\ \E u \in Urls : Head_(u)
    \/ Call /\ \E u \in Urls : Patch(u)
    \/ Call /\ \E u \in Urls : Options(u)
    \/ Call /\ \E cks \in CookieLists : AddCookies(cks)
    \/ Call /\ \E k \in RawKeys, v \in HeaderValues : SetHeader(k, v)
    \/ Call /\ \E k \in RawKeys, v \in HeaderValues : AppendHeader(k, v)
    \/ Call /\ \E c \in Credentials : SetBasicAuth(c.Username, c.Password)
    \/ Call /\ \E p \in ProxyUrls : Proxy(p)
    \/ Call /\ \E b \in Bodies : Payload(b)
    \/ Call /\ \E o \in Outcomes : End(o)
    \/ Call /\ \E r \in DoRequests, o \in Outcomes : Do(r, o)

Spec == Init /\ [][Next]_vars

----------------------------------------------------------------------------
\* The claims.

\* the snapshot a response read to its end leaves
SnapshotOf(resp) ==
    <<resp.StatusCode, resp.Header, resp.Body, resp.ContentLength>>

\* C1: an End() called with a sticky error pending returns that error, does
\* not call the HTTP client and leaves every field of the builder as it was.
C1_EndWithPendingError ==
    [][\A o \in Outcomes :
        (last'.op = "End" /\ err # NoErr /\ End(o)) =>
            /\ last'.op = "End"
            /\ last'.err = err
            /\ calls' = calls
            /\ sent' = sent
            /\ UNCHANGED builder]_vars

\* C1 witness: after an End() that succeeded, a malformed Proxy() left an
\* error pending and a second End() returned it.
C1_Witness ==
    /\ last.op = "End"
    /\ last.err = UrlParseErr("%yy")
    /\ err = UrlParseErr("%yy")
    /\ lastResponse # <<>>
    /\ calls = 1

\* C2: the response snapshot starts at its defaults and changes only in an
\* End() that had no error pending, built its request, got a response and
\* read its body to the end; it then holds that response's values.
C2_SnapshotOnlyOnSuccess ==
    /\ snapshot = <<0, EmptyHeader, <<>>, 0>>
    /\ [][snapshot' # snapshot =>
            \E o \in Outcomes :
                /\ last'.op = "End"
                /\ End(o)
                /\ err = NoErr
                /\ makeRequest.err = NoErr
                /\ o.sendErr = NoErr
                /\ o.readErr = NoErr
                /\ snapshot' = SnapshotOf(o.resp)]_vars

\* C2 witness: an End() read Response1 to its end, and the next End() got
\* Response2 but failed to read it: the snapshot is still that of Response1.
C2_Witness ==
    /\ snapshot = SnapshotOf(Response1)
    /\ lastResponse = <<Response2>>
    /\ last.op = "End"
    /\ last.err = ReadErr

\* the header keys whose values makeRequest writes itself: Authorization when
\* credentials are stored, Cookie when cookies are pending
OverriddenKeys ==
    (IF basicAuth # EmptyAuth THEN {"Authorization"} ELSE {})
    \cup (IF cookies # <<>> THEN {"Cookie"} ELSE {})

\* what C3 says of an End() that sends: one call of the HTTP client, with the
\* builder's method, url and body and its value list for each key of keys;
\* and, when the response o.resp is read to its end, no error, the snapshot
\* of o.resp, the request sent as Request() and o.resp as Response()
SendsAndCaptures(o, keys) ==
    /\ calls' = calls + 1
    /\ sent' # <<>>
    /\ sent'[1].req.Method = method
    /\ sent'[1].req.URL = url
    /\ sent'[1].req.Body = rawBody
    /\ \A k \in keys : sent'[1].req.Header[k] = headers[k]
    /\ (o.sendErr = NoErr /\ o.readErr = NoErr) =>
        /\ last'.err = NoErr
        /\ snapshot' = SnapshotOf(o.resp)
        /\ lastRequest' = <<sent'[1].req>>
        /\ lastResponse' = <<o.resp>>
        /\ err' = NoErr

\* C3 as stated: every End() with no error pending and a non-empty method
\* and url sends the builder's method, url, headers and body, once.
C3_AsStated ==
    [][\A o \in Outcomes :
        (last'.op = "End" /\ End(o) /\ err = NoErr /\ method # ""
            /\ url # "") =>
            SendsAndCaptures(o, HeaderKeys)]_vars

\* C3 as amended: the same of an End() whose url parses, for every header
\* key that makeRequest does not write itself.
C3_EndSendsTheBuilderState ==
    [][\A o \in Outcomes :
        (last'.op = "End" /\ End(o) /\ err = NoErr /\ method # ""
            /\ url # "" /\ UrlParseErr(url) = NoErr) =>
            SendsAndCaptures(o, HeaderKeys \ OverriddenKeys)]_vars

\* C3 witness: a POST with two values of one header and a body was sent and
\* its response read to the end.
C3_Witness ==
    /\ last.op = "End"
    /\ last.err = NoErr
    /\ lastRequest # <<>>
    /\ lastRequest[1].Method = POST
    /\ Len(lastRequest[1].Header["X-K"]) = 2
    /\ snapshot = SnapshotOf(Response1)
    /\ lastResponse = <<Response1>>

\* what C4 says of the selection of method m with url u: the method and the
\* url are set, the rest of the request data and the error are cleared, the
\* cookies and the proxy stay, and the request assembled next carries only
\* the cookies
SelectionLeaves(m, u) ==
    /\ method' = m
    /\ url' = u
    /\ headers' = EmptyHeader
    /\ rawBody' = <<>>
    /\ basicAuth' = EmptyAuth
    /\ err' = NoErr
    /\ cookies' = cookies
    /\ proxy' = proxy
    /\ LET next == makeRequest'
       IN  next.err = NoErr =>
            /\ next.req[1].Body = <<>>
            /\ next.req[1].Header = AttachCookies(EmptyHeader, cookies)

\* C4: each of the seven method-selection calls sets its method and url,
\* clears headers, body, basic auth and the sticky error, and keeps the
\* cookies and the proxy; an End() that follows it at once sends through
\* that proxy.
C4_SelectionResetsRequestData ==
    [][/\ last'.op \in Methods =>
            LET u == last'.arg[1]
            IN  /\ (last'.op = GET /\ Get(u)) => SelectionLeaves(GET, u)
                /\ (last'.op = POST /\ Post(u)) => SelectionLeaves(POST, u)
                /\ (last'.op = PUT /\ Put(u)) => SelectionLeaves(PUT, u)
                /\ (last'.op = DELETE /\ Delete(u)) =>
                    SelectionLeaves(DELETE, u)
                /\ (last'.op = HEAD /\ Head_(u)) => SelectionLeaves(HEAD, u)
                /\ (last'.op = PATCH /\ Patch(u)) =>
                    SelectionLeaves(PATCH, u)
                /\ (last'.op = OPTIONS /\ Options(u)) =>
                    SelectionLeaves(OPTIONS, u)
       /\ \A o \in Outcomes :
            (last'.op = "End" /\ last.op \in Methods /\ calls' # calls
                /\ End(o)) =>
                /\ sent'[1].proxy = proxy
                /\ transportProxy' = proxy]_vars

\* C4 witness: a GET with a cookie was sent and the HTTP client failed; the
\* POST selected next has no error and the cookie.
C4_Witness ==
    /\ last.op = POST
    /\ method = POST
    /\ err = NoErr
    /\ cookies # <<>>
    /\ calls = 1
    /\ lastResponse = <<>>
    /\ lastRequest # <<>>
    /\ lastRequest[1].Method = GET
    /\ lastRequest[1].Header["Cookie"] # <<>>

\* the call left key with the value list given and the other keys as they were
HeaderCallLeaves(key, list) ==
    /\ headers'[CanonicalKey(key)] = list
    /\ \A k \in HeaderKeys \ {CanonicalKey(key)} : headers'[k] = headers[k]

\* the request assembled from the state carries, for each key of keys, the
\* value list the header calls built
AssembledCarries(keys) ==
    LET made == makeRequest
    IN  made.err = NoErr =>
            \A k \in keys : made.req[1].Header[k] = headers[k]

\* the step is a call of SetHeader or AppendHeader
HeaderCall ==
    /\ last'.op \in {"SetHeader", "AppendHeader"}
    /\ SetHeader(last'.arg[1], last'.arg[2])
        \/ AppendHeader(last'.arg[1], last'.arg[2])

\* what C5 says of the value lists: SetHeader leaves its key with the one
\* value, AppendHeader adds its value after those the key has (so after the
\* value of the SetHeader before it), and neither touches another key
HeaderCallsBuild ==
    last'.op \in {"SetHeader", "AppendHeader"} =>
        LET key == last'.arg[1]
            value == last'.arg[2]
        IN  /\ SetHeader(key, value) => HeaderCallLeaves(key, <<value>>)
            /\ AppendHeader(key, value) =>
                /\ HeaderCallLeaves(key,
                        Append(headers[CanonicalKey(key)], value))
                /\ (last.op = "SetHeader"
                        /\ CanonicalKey(last.arg[1]) = CanonicalKey(key)) =>
                    headers'[CanonicalKey(key)] = <<last.arg[2], value>>

\* C5 as stated: the header calls build the value lists, and the request
\* assembled after a header call carries the list of every key.
C5_AsStated ==
    [][/\ HeaderCallsBuild
       /\ HeaderCall => AssembledCarries(HeaderKeys)']_vars

\* C5 as amended: the same, the assembled request carrying the list of every
\* key that makeRequest does not write itself.
C5_HeaderCalls ==
    [][/\ HeaderCallsBuild
       /\ HeaderCall => AssembledCarries(HeaderKeys \ OverriddenKeys)']_vars

\* C5 witness: SetHeader and two AppendHeader built a list of three values,
\* which the assembled request carries.
C5_Witness ==
    /\ last.op = "AppendHeader"
    /\ headers["X-K"] = <<"v1", "Basic u:p", "v1">>
    /\ makeRequest.err = NoErr
    /\ makeRequest.req[1].Header["X-K"] = <<"v1", "Basic u:p", "v1">>

\* C6: an End() with no error pending and an empty method or url returns a
\* configuration error, keeps it as the sticky error, does not call the HTTP
\* client and leaves lastResponse and the snapshot as they were.
C6_EndWithoutMethodOrUrl ==
    [][\A o \in Outcomes :
        (last'.op = "End" /\ End(o) /\ err = NoErr
            /\ (method = "" \/ url = "")) =>
            /\ last'.err = IF method = "" THEN "no method specified"
                           ELSE "no url specified"
            /\ err' = last'.err
            /\ calls' = calls
            /\ sent' = sent
            /\ lastResponse' = lastResponse
            /\ UNCHANGED snapshot]_vars

\* C6 witness: after an End() that succeeded, a method was selected with an
\* empty url and End() failed on it.
C6_Witness ==
    /\ last.op = "End"
    /\ last.err = "no url specified"
    /\ err = "no url specified"
    /\ method # ""
    /\ lastResponse # <<>>
    /\ calls = 1

\* what C7 says of the End() that follows a Proxy() whose url did not parse
EndAfterBadProxy ==
    \A o \in Outcomes :
        (last'.op = "End" /\ last.op = "Proxy"
            /\ UrlParseErr(last.arg[1]) # NoErr /\ End(o)) =>
            /\ last'.err = UrlParseErr(last.arg[1])
            /\ calls' = calls
            /\ sent' = sent

C8_ErrorIsTheFirstError == err = firstErr

\* C9: the error an End() returns is the sticky error after the call, and it
\* returns none exactly when there is none.
C9_EndReturnsTheStickyError ==
    [][\A o \in Outcomes :
        (last'.op = "End" /\ End(o)) => last'.err = err']_vars

\* C9 witness: an End() whose response body failed to read returned the read
\* error, which is the sticky error.
C9_Witness ==
    /\ last.op = "End"
    /\ last.err = ReadErr
    /\ err = ReadErr
    /\ lastResponse # <<>>

\* C10: only a method selection makes a pending error nil, each method
\* selection does, and once an End() has failed every End() before the next
\* method selection returns that End()'s error without calling the HTTP
\* client.
C10_OnlySelectionClearsTheError ==
    [][/\ (err # NoErr /\ err' = NoErr) => last'.op \in Methods
       /\ last'.op \in Methods => err' = NoErr
       /\ \A o \in Outcomes :
            (last'.op = "End" /\ failed # NoErr /\ End(o)) =>
                (last'.err = failed /\ calls' = calls)]_vars

\* what C11 says Do returns when the HTTP client answers o: no response, no
\* body and the error when the send fails; the response, no body and the
\* error when the body fails to read; the response, its body and no error
\* otherwise
DoGives(o) ==
    IF o.sendErr # NoErr
    THEN last'.resp = <<>> /\ last'.body = <<>> /\ last'.err = o.sendErr
    ELSE IF o.readErr # NoErr
    THEN last'.resp = <<o.resp>> /\ last'.body = <<>>
            /\ last'.err = o.readErr
    ELSE last'.resp = <<o.resp>> /\ last'.body = <<o.resp.Body>>
            /\ last'.err = NoErr

\* C11: Do(req), in any state of the builder, calls the HTTP client once
\* with req and returns (nil, nil, error) when the send fails, (response,
\* nil, error) when the body fails to read and (response, body, nil) when
\* both succeed.
C11_DoSendsAndReturns ==
    [][\A o \in Outcomes :
        (last'.op = "Do" /\ Do(last'.arg[1], o)) =>
            /\ calls' = calls + 1
            /\ sent' # <<>>
            /\ sent'[1].req = last'.arg[1]
            /\ last'.err # NoErr <=> (o.sendErr # NoErr \/ o.readErr # NoErr)
            /\ DoGives(o)]_vars

\* C11 witness: with a sticky error pending and no method or url, Do() sent
\* its request and got a response whose body failed to read.
C11_Witness ==
    /\ last.op = "Do"
    /\ err # NoErr
    /\ method = ""
    /\ url = ""
    /\ calls = 1
    /\ sent[1].req \in DoRequests
    /\ last.resp = <<Response2>>
    /\ last.body = <<>>
    /\ last.err = ReadErr

\* C12: Do(req), whatever the HTTP client answers, leaves method, url,
\* headers, body, basic auth, cookies, proxy, sticky error, lastRequest,
\* lastResponse and the four snapshot fields as they were.
C12_DoLeavesTheBuilder ==
    [][\A o \in Outcomes :
        (last'.op = "Do" /\ Do(last'.arg[1], o)) =>
            UNCHANGED <<method, url, headers, rawBody, basicAuth, cookies,
                        proxy, err, lastRequest, lastResponse,
                        respStatusCode, respHeaders, rawRespBody,
                        contentLength>>]_vars

\* C12 witness: an End() had stored its request and Response1; the Do()
\* after it got Response2, whose body failed to read, and Response() and
\* the snapshot are still those of the End().
C12_Witness ==
    /\ last.op = "Do"
    /\ last.resp = <<Response2>>
    /\ last.err = ReadErr
    /\ lastResponse = <<Response1>>
    /\ snapshot = SnapshotOf(Response1)
    /\ lastRequest # <<>>
    /\ lastRequest[1].URL = "http://a"
    /\ err = NoErr

\* name=value of each cookie of cks, in their order, joined by "; "
RECURSIVE CookieLine(_)
CookieLine(cks) ==
    IF Len(cks) = 1 THEN cks[1].Name \o "=" \o cks[1].Value
    ELSE CookieLine(SubSeq(cks, 1, Len(cks) - 1)) \o "; "
            \o cks[Len(cks)].Name \o "=" \o cks[Len(cks)].Value

\* the Cookie values of a request that carries the cookies of cks, and no
\* other cookie
CarriedCookies(cks) == IF cks = <<>> THEN <<>> ELSE <<CookieLine(cks)>>

\* C13: the pending cookies are always the arguments of the AddCookies calls
\* since the last ClearCookies(), in their order; no call but AddCookies and
\* ClearCookies changes them; so a request assembled when no header call has
\* stored a Cookie value (as after a method selection) carries those cookies
\* and no other.
C13_PendingCookies ==
    /\ [](cookies = added)
    /\ []((headers["Cookie"] = <<>> /\ makeRequest.err = NoErr) =>
            makeRequest.req[1].Header["Cookie"] = CarriedCookies(added))
    /\ [][last'.op \notin {"AddCookies", "ClearCookies"} =>
            cookies' = cookies]_vars

\* C13 witness: four calls, AddCookies([c1]) and then Get(url) the last two
\* (after AddCookies([c2]) and ClearCookies(), which lead to this state):
\* the request assembled for the GET carries c1 alone.
C13_Witness ==
    /\ last.op = GET
    /\ steps = 4
    /\ added = <<Cookie1>>
    /\ cookies = <<Cookie1>>
    /\ makeRequest.err = NoErr
    /\ makeRequest.req[1].Header["Cookie"] = <<"a=1">>

\* C14: End() replaces lastResponse exactly when the HTTP client returns a
\* response.  When the client fails, lastResponse stays and the error is the
\* sticky error; when the body of the response fails to read, lastResponse
\* is the new response, the error is the sticky error and the snapshot stays,
\* so Response() and the snapshot can be of two executions; an End() that
\* does not reach the client leaves lastResponse.
C14_LastResponse ==
    [][\A o \in Outcomes :
        (last'.op = "End" /\ End(o)) =>
            IF calls' = calls
            THEN lastResponse' = lastResponse
            ELSE IF o.sendErr # NoErr
            THEN lastResponse' = lastResponse /\ err' = o.sendErr
            ELSE /\ lastResponse' = <<o.resp>>
                 /\ o.readErr # NoErr =>
                        (err' = o.readErr /\ UNCHANGED snapshot)]_vars

\* C14 witness: an End() read Response2 to its end, the next End() got
\* Response1 and failed to read its body: Response() is Response1 and the
\* snapshot is that of Response2.
C14_Witness ==
    /\ last.op = "End"
    /\ err = ReadErr
    /\ lastResponse = <<Response1>>
    /\ snapshot = SnapshotOf(Response2)
    /\ calls = 2

\* the step is an End() with no error pending whose request fails to
\* assemble: it keeps the error as the sticky error and returns it
EndFailsToAssemble(o) ==
    /\ last'.op = "End"
    /\ err = NoErr
    /\ End(o)
    /\ makeRequest.err # NoErr

\* C15 as stated: an End() with no error pending and an empty method or url
\* keeps the error as the sticky error, returns it and leaves Request()
\* absent, whatever request an earlier End() had stored.
C15_AsStated ==
    [][\A o \in Outcomes :
        (EndFailsToAssemble(o) /\ (method = "" \/ url = "")) =>
            /\ err' = makeRequest.err
            /\ last'.err = makeRequest.err
            /\ lastRequest' = <<>>]_vars

\* C15 as amended: an End() with no error pending whose request fails to
\* assemble keeps the error as the sticky error, returns it and leaves
\* Request() what it was before the call.
C15_FailedAssemblyKeepsRequest ==
    [][\A o \in Outcomes :
        EndFailsToAssemble(o) =>
            /\ err' = makeRequest.err
            /\ last'.err = makeRequest.err
            /\ lastRequest' = lastRequest]_vars

\* C15 witness: an End() had sent a GET; after Post("") the next End() failed
\* to assemble, and Request() is still the GET.
C15_Witness ==
    /\ last.op = "End"
    /\ last.err = "no url specified"
    /\ err = "no url specified"
    /\ method = POST
    /\ lastRequest # <<>>
    /\ lastRequest[1].Method = GET
    /\ calls = 1

\* the chained configuration steps C16 names
ConfigurationCalls ==
    {"SetHeader", "AppendHeader", "AddCookies", "SetBasicAuth", "Payload",
     "Proxy"}

RequestBasicAuth(h) ==
    LET v == HeaderGet(h, "Authorization")
        encoded == {c \in Credentials :
                        BasicAuthValue(c.Username, c.Password) = v}
    IN  IF encoded = {} THEN <<>> ELSE <<CHOOSE c \in encoded : TRUE>>

\* basicAuth holds the credentials of the last SetBasicAuth call, and none
\* after a method selection, after ClearRequestData() and at the start
StoredCredentials ==
    /\ basicAuth = EmptyAuth
    /\ [][/\ last'.op = "SetBasicAuth" =>
                basicAuth' = [Username |-> last'.arg[1],
                              Password |-> last'.arg[2]]
          /\ last'.op \in Methods \cup {"ClearRequestData"} =>
                basicAuth' = EmptyAuth
          /\ last'.op \notin Methods \cup {"ClearRequestData", "SetBasicAuth"}
                => basicAuth' = basicAuth]_vars

\* C17 as stated: the assembled request carries a basic-auth header exactly
\* when the stored credentials are not both empty, and the header then
\* encodes them; the stored credentials are those of the last SetBasicAuth
\* call, none after a reset.
C17_AsStated ==
    /\ StoredCredentials
    /\ [](makeRequest.err = NoErr =>
            RequestBasicAuth(makeRequest.req[1].Header) =
                IF basicAuth # EmptyAuth THEN <<basicAuth>> ELSE <<>>)

\* C17 as amended: when the stored credentials are not both empty the
\* Authorization header of the assembled request is their encoding alone;
\* when they are, it is what the header calls stored under Authorization.
C17_BasicAuthHeader ==
    /\ StoredCredentials
    /\ [](makeRequest.err = NoErr =>
            makeRequest.req[1].Header["Authorization"] =
                IF basicAuth # EmptyAuth
                THEN <<BasicAuthValue(basicAuth.Username,
                                      basicAuth.Password)>>
                ELSE headers["Authorization"])

\* C17 witness: after SetHeader("Authorization", "v1") and SetBasicAuth("u",
\* ""), the assembled request has the encoding of ("u", "") as its only
\* Authorization value.
C17_Witness ==
    /\ last.op = "SetBasicAuth"
    /\ basicAuth = [Username |-> "u", Password |-> ""]
    /\ headers["Authorization"] = <<"v1">>
    /\ makeRequest.err = NoErr
    /\ makeRequest.req[1].Header["Authorization"] = <<"Basic u:">>
    /\ RequestBasicAuth(makeRequest.req[1].Header) = <<basicAuth>>

\* C18: the proxy is that of the time of the call: every End() that reaches
\* the HTTP client and every Do() sends through the proxy the builder holds
\* then, which is the url of the last Proxy() that parsed since the last
\* ClearProxy(), or none; what an earlier call left on the transport does
\* not count.
C18_ProxyAtExecution ==
    /\ [](proxy = proxied)
    /\ [][calls' # calls =>
            /\ last'.op \in {"End", "Do"}
            /\ sent'[1].proxy = proxy
            /\ sent'[1].proxy = proxied
            /\ transportProxy' = proxied]_vars

\* C18 witness: three calls, two of them of Do(): the first sent with no
\* proxy on the transport, then Proxy("http://p"), and the second sent
\* through that proxy.
C18_Witness ==
    /\ last.op = "Do"
    /\ steps = 3
    /\ calls = 2
    /\ proxied = <<"http://p">>
    /\ sent[1].proxy = <<"http://p">>
    /\ transportProxy = <<"http://p">>

\* C19: End() and Do() close the body of every response the HTTP client
\* returns to them before they return, whether the body read to its end or
\* failed to; they close nothing when the client returns an error, or is
\* not called.
C19_BodyClosed ==
    [][\A o \in Outcomes :
        /\ (last'.op = "End" /\ End(o)) =>
            (last'.closed <=> (calls' # calls /\ o.sendErr = NoErr))
        /\ (last'.op = "Do" /\ Do(last'.arg[1], o)) =>
            (last'.closed <=> o.sendErr = NoErr)]_vars

\* C19 witness: an End() got a response, failed to read its body and
\* closed it.
C19_Witness ==
    /\ last.op = "End"
    /\ last.err = ReadErr
    /\ last.closed
    /\ lastResponse = <<Response1>>
    /\ calls = 1

\* C20: End(), whatever its outcome, leaves method, url, headers, body,
\* basic auth, cookies and proxy as they were; an End() called right after
\* an End() that succeeded calls the HTTP client again, with a request equal
\* to the one sent before.
C20_EndKeepsConfiguration ==
    [][\A o \in Outcomes :
        (last'.op = "End" /\ End(o)) =>
            /\ UNCHANGED <<method, url, headers, rawBody, basicAuth,
                           cookies, proxy>>
            /\ (last.op = "End" /\ last.err = NoErr) =>
                /\ calls' = calls + 1
                /\ sent'[1].req = sent[1].req
                /\ sent'[1].req = lastRequest[1]]_vars

\* C20 witness: a GET with a cookie was sent and Response1 read to its end;
\* the End() called right after sent the same request again, cookie
\* included, and got Response2, whose body failed to read.
C20_Witness ==
    /\ last.op = "End"
    /\ steps = 4
    /\ calls = 2
    /\ snapshot = SnapshotOf(Response1)
    /\ lastResponse = <<Response2>>
    /\ cookies = <<Cookie1>>
    /\ sent[1].req.Header["Cookie"] = <<"a=1">>
    /\ lastRequest = <<sent[1].req>>

====
